---- MODULE Spec2Model ----
(***************************************************************************)
(* A model of the drgdfu firmware update agent.                            *)
(*                                                                         *)
(*   - FirmwareUpdater::report (File)  the Local-Image planner             *)
(*   - FirmwareUpdater::check / run    the update driver                   *)
(*   - SerialUpdater::request / swap   the serial transport's commit step  *)
(*   - FirmwareSource::run             the upload command's retry loop     *)
(*   - FirmwareUpdater::report (Cloud) the Cloud updater's request loop      *)
(*   - GattBoard                       the GATT transport and its device     *)
(*   - DeviceSimulator                 the device simulator                  *)
(*                                                                         *)
(* Specifications:                                                         *)
(*   Spec        the driver running against a device (src/firmware.rs)     *)
(*   FairSpec    Spec plus weak fairness of the driver's steps             *)
(*   PlannerSpec the planner applied to an arbitrary Status and image      *)
(*   MainSpec    the upload command of src/main.rs                         *)
(*   CloudSpec   one call of report on a Cloud updater                     *)
(*   GattSpec    operations on one GattBoard (src/gatt.rs)                 *)
(*   SessionSpec one invocation of run on a File or a Cloud updater        *)
(*   SimSpec     run on a File updater against DeviceSimulator             *)
(*   SimFairSpec SimSpec plus weak fairness of run's steps                 *)
(***************************************************************************)
EXTENDS Integers, Sequences, FiniteSets, TLC

\* ------------------------------------------------------------------ bounds

\* longest firmware image (bytes) the model enumerates
MaxLen == 3
\* device MTU constants are drawn from 1..MaxMtu
MaxMtu == 2
\* invocations of run on one device (the first one and the reruns)
MaxRuns == 2
\* swaps dispatched within one invocation of run
MaxSwaps == 2
\* runs of the updater inside one upload command
MaxMainRuns == 5

\* operations called on one GattBoard
MaxGattOps == 3
\* longest data (bytes) handed to GattBoard::write
MaxGattLen == 3
\* the device's MTU characteristic is drawn from 1..MaxChunk
MaxChunk == 2

\* the leading bytes of a firmware file run against the simulator are drawn
\* freely up to this length
MaxSimHead == 4

\* calls of report within one check session on a Cloud updater
MaxCloudSteps == 3

\* POSTs within one call of report on a Cloud updater
MaxPosts == 3

\* source requests within one check session: enough for every chunk of the
\* longest image, the swap and one more
MaxSteps == MaxLen + 3

\* --------------------------------------------------------- program constants

\* status.mtu.unwrap_or(4096)
DEFAULT_MTU == 4096
\* &[0; 32]
CHECKSUM_LEN == 32

Versions == {"1.0", "1.9", "2.0"}

\* two byte values are enough to tell the positions of an image apart
Bytes == {0, 1}

Min(a, b) == IF a <= b THEN a ELSE b

\* all byte sequences of length 0..n
RECURSIVE SeqsUpTo(_)
SeqsUpTo(n) ==
    IF n = 0 THEN {<<>>}
    ELSE LET shorter == SeqsUpTo(n - 1)
         IN  shorter \cup {Append(s, b) : s \in {t \in shorter : Len(t) = n - 1}, b \in Bytes}

Images == SeqsUpTo(MaxLen)

\* simulator.rs: FLASH_SIZE
FLASH_SIZE == 128
\* simulator.rs: DeviceSimulator::MTU
SIM_MTU == 7
\* simulator.rs: the bytes of the flash that hold the version
VERSION_LEN == 4

\* ------------------------------------------------------------ protocol types

\* Option<u32> for Status.mtu
NoMtu == [present |-> FALSE, value |-> 0]
SomeMtu(n) == [present |-> TRUE, value |-> n]

\* Option<UpdateStatus> for Status.update
NoUpdate == [present |-> FALSE, version |-> "", offset |-> 0]
SomeUpdate(ver, off) == [present |-> TRUE, version |-> ver, offset |-> off]

\* StatusRef::first(version, mtu, correlation_id)
StatusFirst(ver, mtu, cid) ==
    [version |-> ver, mtu |-> mtu, update |-> NoUpdate, correlation_id |-> cid]

\* mutant: the two versions change places
StatusUpdate_versions_swapped(ver, mtu, off, next, cid) ==
    [version |-> next, mtu |-> mtu, update |-> SomeUpdate(ver, off),
     correlation_id |-> cid]

\* mutant: the progress of the update is not recorded
StatusUpdate_forgets(ver, mtu, off, next, cid) == StatusFirst(ver, mtu, cid)

\* StatusRef::update(version, mtu, offset, next_version, correlation_id)
StatusUpdate(ver, mtu, off, next, cid) ==
    [version |-> ver, mtu |-> mtu, update |-> SomeUpdate(next, off),
     correlation_id |-> cid]

ZeroChecksum == [i \in 1..CHECKSUM_LEN |-> 0]

\* Option<u32> for Sync.poll
NoPoll == [present |-> FALSE, value |-> 0]

\* Option<&[u8]> for correlation_id: 0 is None, any other number an id
NoCorrelation == 0

NoCmd ==
    [kind |-> "None", version |-> "", poll |-> NoPoll, offset |-> 0, data |-> <<>>,
     checksum |-> <<>>, correlation_id |-> NoCorrelation]

\* Command::new_sync(version, poll, correlation_id)
new_sync(ver, poll, cid) ==
    [NoCmd EXCEPT !.kind = "Sync", !.version = ver, !.poll = poll,
                  !.correlation_id = cid]

\* mutant: Commands are built with the version the device reported
new_write_device_version(ver, off, d, cid) ==
    [NoCmd EXCEPT !.kind = "Write", !.version = "1.0", !.offset = off, !.data = d,
                  !.correlation_id = cid]

\* Command::new_write(version, offset, data, correlation_id)
new_write(ver, off, d, cid) ==
    [NoCmd EXCEPT !.kind = "Write", !.version = ver, !.offset = off, !.data = d,
                  !.correlation_id = cid]

\* Command::new_swap(version, checksum, correlation_id)
new_swap(ver, sum, cid) ==
    [NoCmd EXCEPT !.kind = "Swap", !.version = ver, !.checksum = sum,
                  !.correlation_id = cid]

\* the planner aborted: `data.len() - offset` underflows (debug build) or the
\* slice start lies beyond the end of `data` (release build)
Panic == [NoCmd EXCEPT !.kind = "Panic"]

\* ------------------------------------------------- the Local-Image planner

\* mutant: the Status's mtu is ignored
unwrap_or_ignored(opt, default) == default

\* status.mtu.unwrap_or(4096)
unwrap_or(opt, default) == IF opt.present THEN opt.value ELSE default

\* core::cmp::min(mtu, data.len() - offset)
to_copy(mtu, remaining) == Min(mtu, remaining)

\* mutant: the chunk is always cut from the start of the image
slice_from_start(img, from, n) == SubSeq(img, 1, n)

\* &data[from .. from + n]
slice(img, from, n) == SubSeq(img, from + 1, from + n)

\* mutant: the update record is resumed whatever version it names
report_resumes_any(st, meta, img) ==
    IF meta.version = st.version
    THEN new_sync(st.version, NoPoll, st.correlation_id)
    ELSE IF st.update.present /\ st.update.offset = meta.size
         THEN new_swap(meta.version, ZeroChecksum, st.correlation_id)
         ELSE LET off == IF st.update.present THEN st.update.offset ELSE 0
                  mtu == unwrap_or(st.mtu, DEFAULT_MTU)
              IN  IF off > Len(img)
                  THEN Panic
                  ELSE new_write(meta.version, off,
                                 slice(img, off, to_copy(mtu, Len(img) - off)),
                                 st.correlation_id)

\* mutant: the Swap is answered as soon as the offset has reached the size
report_swap_at_or_past(st, meta, img) ==
    IF meta.version = st.version
    THEN new_sync(st.version, NoPoll, st.correlation_id)
    ELSE IF st.update.present /\ st.update.version = meta.version
                              /\ st.update.offset >= meta.size
         THEN new_swap(meta.version, ZeroChecksum, st.correlation_id)
         ELSE LET off == IF st.update.present /\ st.update.version = meta.version
                         THEN st.update.offset ELSE 0
                  mtu == unwrap_or(st.mtu, DEFAULT_MTU)
              IN  new_write(meta.version, off,
                            slice(img, off, to_copy(mtu, Len(img) - off)),
                            st.correlation_id)

\* mutant: a completed update record is looked at before the version
report_update_first(st, meta, img) ==
    IF st.update.present /\ st.update.version = meta.version
                         /\ st.update.offset = meta.size
    THEN new_swap(meta.version, ZeroChecksum, st.correlation_id)
    ELSE IF meta.version = st.version
         THEN new_sync(st.version, NoPoll, st.correlation_id)
         ELSE new_write(meta.version, 0,
                        SubSeq(img, 1, Min(unwrap_or(st.mtu, DEFAULT_MTU), Len(img))),
                        st.correlation_id)

\* FirmwareUpdater::report, the File arm: the next Command for a Status
report(st, meta, img) ==
    IF meta.version = st.version
    THEN new_sync(st.version, NoPoll, st.correlation_id)
    ELSE IF st.update.present
         THEN IF st.update.version = meta.version
              THEN IF st.update.offset = meta.size
                   THEN new_swap(meta.version, ZeroChecksum, st.correlation_id)
                   ELSE IF st.update.offset > Len(img)
                        THEN Panic
                        ELSE LET mtu == unwrap_or(st.mtu, DEFAULT_MTU)
                                 n   == to_copy(mtu, Len(img) - st.update.offset)
                             IN  new_write(meta.version, st.update.offset,
                                           slice(img, st.update.offset, n),
                                           st.correlation_id)
              ELSE LET mtu == unwrap_or(st.mtu, DEFAULT_MTU)
                       n   == to_copy(mtu, Len(img))
                   IN  new_write(meta.version, 0, slice(img, 0, n),
                                 st.correlation_id)
         ELSE LET mtu == unwrap_or(st.mtu, DEFAULT_MTU)
                  n   == to_copy(mtu, Len(img))
              IN  new_write(meta.version, 0, slice(img, 0, n), st.correlation_id)

\* ------------------------------------------------------ the serial transport

\* what the device answers to a frame: a response, an error frame, or bytes
\* postcard cannot decode
Replies == {"ok", "error", "garbage"}

\* SerialUpdater::request: write the frame, read one frame back, decode it
request(wr, rd, reply) ==
    IF ~wr THEN "Err"
    ELSE IF ~rd THEN "Err"
    ELSE IF reply = "garbage" THEN "Err"
    ELSE IF reply = "error" THEN "Err"
    ELSE "Ok"

\* SerialUpdater::swap: the Swap request, then a second frame read
swap(ev) ==
    IF request(ev.wr, ev.rd1, ev.reply1) = "Err" THEN "Err"
    ELSE IF ~ev.rd2 THEN "Err"
    ELSE IF ev.reply2 = "garbage" THEN "Err"
    ELSE IF ev.reply2 = "error" THEN "Err"
    ELSE "Ok"

\* how the transport behaved during a swap call, as seen from the wire
SwapClass(ev) ==
    IF ~ev.wr THEN "not_sent"
    ELSE IF ~ev.rd1 THEN "lost_after_send"
    ELSE IF ev.reply1 # "ok" THEN "bad_reply"
    ELSE IF ~ev.rd2 THEN "lost_after_send"
    ELSE IF ev.reply2 # "ok" THEN "bad_reply"
    ELSE "ok"

\* the device commits when the request reached it and it reported no error
SwapCommitted(ev) == ev.wr /\ ev.reply1 # "error" /\ ev.reply2 # "error"

\* ------------------------------------------------------------------- state

VARIABLES
    metadata,         \* FirmwareUpdater::File.metadata: [version, size]
    data,             \* FirmwareUpdater::File.data
    MTU,              \* FirmwareDevice::MTU of the device in use
    pc,               \* where run/check stands
    current_version,  \* run's current_version
    status,           \* check's status
    cmd,              \* check's cmd
    step,             \* source requests made in the current check call
    calls,            \* calls made in this invocation of run, by operation
    failOp,           \* the device operation whose error ended this invocation
    invocation,       \* number of the current invocation of run
    swapTrace,        \* the transport's behaviour in the last swap call
    writes,           \* (offset, data) passed to device.write since device.start
    devVersion,       \* the version the device reports
    devPending,       \* the device's persisted update record
    devFaulty,        \* whether the device's operations may fail
    devHonest,        \* whether the device runs the new image after a swap
    entryVersion,     \* the version the device ran when run was entered
    mainPc,           \* where the upload command stands
    transport,        \* Transport chosen on the command line
    source,           \* FirmwareSource chosen on the command line
    runLog,           \* results of updater.run, in order
    printed,          \* "Firmware updated" was printed
    exitCode,         \* the process's exit status, -1 while running
    updater,          \* the FirmwareUpdater variant in use: "File" or "Cloud"
    cPc,              \* where report's Cloud arm stands
    cStatus,          \* report's status argument
    cName,            \* report's name argument, "" for None
    cPosts,           \* the POSTs sent in this call, each with its response
    cSleeps,          \* the one-second sleeps taken in this call
    cResult,          \* the Command report returned
    gPc,              \* where the GattBoard operation in progress stands
    gOp,              \* the GattBoard operation in progress or last finished
    gResult,          \* the result of the last finished operation
    gOps,             \* operations called on the GattBoard so far
    gUpdated,         \* GattBoard.updated
    gMtu,             \* GattBoard.mtu, Option<u8>
    gBoard,           \* GattBoard.board is Some (connected)
    gArg,             \* write's arguments: [offset, data]
    gOffset,          \* write_firmware's local offset
    gRest,            \* the part of the firmware write_firmware has yet to send
    gMarks,           \* mark-booted control writes issued so far
    gSwaps,           \* swaps dispatched so far (swap_firmware returned Ok)
    gOwed,            \* a swap was dispatched and no mark-booted issued since
    gFaulty,          \* whether the GATT characteristic operations may fail
    dMtu,             \* the device's MTU characteristic
    dOffset,          \* the device's offset characteristic
    dInbox,           \* characteristic writes the device has yet to act on
    flash             \* DeviceSimulator.flash

driverVars == <<metadata, data, MTU, pc, current_version, status, cmd, step, calls,
                failOp, invocation, swapTrace, writes, devVersion, devPending,
                devFaulty, devHonest, entryVersion, updater>>

mainVars == <<mainPc, transport, source, runLog, printed, exitCode>>

cloudVars == <<cPc, cStatus, cName, cPosts, cSleeps, cResult>>

gattVars == <<gPc, gOp, gResult, gOps, gUpdated, gMtu, gBoard, gArg, gOffset, gRest,
              gMarks, gSwaps, gOwed, gFaulty, dMtu, dOffset, dInbox>>

simVars == <<flash>>

vars == <<driverVars, mainVars, cloudVars, gattVars, simVars>>

NoCalls == [version |-> 0, report |-> 0, start |-> 0, write |-> 0, swap |-> 0,
            synced |-> 0]

NoStatus == StatusFirst("", NoMtu, NoCorrelation)

\* results a device operation can have
Outcomes == IF devFaulty THEN BOOLEAN ELSE {TRUE}

AllOk == [wr |-> TRUE, rd1 |-> TRUE, reply1 |-> "ok", rd2 |-> TRUE, reply2 |-> "ok"]

SwapEvents ==
    IF devFaulty
    THEN [wr : BOOLEAN, rd1 : BOOLEAN, reply1 : Replies, rd2 : BOOLEAN,
          reply2 : Replies]
    ELSE {AllOk}

\* the declared size is the one the metadata file gives; it may differ from
\* the length of the firmware file
Sizes(img) == {n \in {Len(img) - 1, Len(img), Len(img) + 1} : n >= 0}

CloudIdle ==
    /\ cPc = "off"
    /\ cStatus = NoStatus
    /\ cName = ""
    /\ cPosts = <<>>
    /\ cSleeps = 0
    /\ cResult = NoCmd

GattIdle ==
    /\ gPc = "off"
    /\ gOp = "none"
    /\ gResult = "none"
    /\ gOps = 0
    /\ gUpdated = FALSE
    /\ gMtu = NoMtu
    /\ gBoard = FALSE
    /\ gArg = [offset |-> 0, data |-> <<>>]
    /\ gOffset = 0
    /\ gRest = <<>>
    /\ gMarks = 0
    /\ gSwaps = 0
    /\ gOwed = FALSE
    /\ gFaulty = FALSE
    /\ dMtu = 1
    /\ dOffset = 0
    /\ dInbox = <<>>

\* no DeviceSimulator was constructed
SimIdle == flash = <<>>

MainIdle ==
    /\ mainPc = "off"
    /\ transport = "none"
    /\ source = "none"
    /\ runLog = <<>>
    /\ printed = FALSE
    /\ exitCode = -1

DriverIdle ==
    /\ metadata = [version |-> "2.0", size |-> 0]
    /\ data = <<>>
    /\ MTU = 1
    /\ pc = "off"
    /\ current_version = ""
    /\ status = NoStatus
    /\ cmd = NoCmd
    /\ step = 0
    /\ calls = NoCalls
    /\ failOp = "none"
    /\ invocation = 1
    /\ swapTrace = "none"
    /\ writes = <<>>
    /\ devVersion = "1.0"
    /\ devPending = NoUpdate
    /\ devFaulty = FALSE
    /\ devHonest = TRUE
    /\ entryVersion = devVersion
    /\ updater = "File"

\* the state when run is entered for the first time
Init ==
    /\ data \in Images
    /\ metadata \in [version : {"1.9", "2.0"}, size : Sizes(data)]
    /\ MTU \in 1..MaxMtu
    /\ pc = "run"
    /\ current_version = ""
    /\ status = NoStatus
    /\ cmd = NoCmd
    /\ step = 0
    /\ calls = NoCalls
    /\ failOp = "none"
    /\ invocation = 1
    /\ swapTrace = "none"
    /\ writes = <<>>
    /\ devVersion \in {"1.0", "2.0"}
    /\ devPending = NoUpdate
    /\ devFaulty \in BOOLEAN
    /\ devHonest \in BOOLEAN
    /\ entryVersion = devVersion
    /\ updater = "File"
    /\ MainIdle
    /\ CloudIdle
    /\ GattIdle
    /\ SimIdle

Bump(op) == [calls EXCEPT ![op] = @ + 1]

\* mutant: the error is dropped and check's loop goes on
Fail_swallowed(op) ==
    /\ pc' = "report"
    /\ failOp' = op

\* `?` on a device operation's result: check and run return the error
Fail(op) ==
    /\ pc' = "err"
    /\ failOp' = op

\* -------------------------------------------------------- the update driver

\* mutant: after a swap run keeps the version it read when it was entered
RunVersion_stale ==
    /\ pc = "run"
    /\ \E ok \in Outcomes :
         IF ok
         THEN /\ current_version' = entryVersion
              /\ status' = StatusFirst(entryVersion, SomeMtu(MTU), NoCorrelation)
              /\ pc' = "report"
              /\ failOp' = failOp
         ELSE /\ Fail("version")
              /\ UNCHANGED <<current_version, status>>
    /\ calls' = Bump("version")
    /\ step' = 0
    /\ cmd' = NoCmd
    /\ UNCHANGED <<metadata, data, MTU, invocation, swapTrace, writes, devVersion,
                   devPending, devFaulty, updater, entryVersion, devHonest,
                   mainVars, cloudVars, gattVars, simVars>>

\* FirmwareUpdater::run, top of the loop: device.version(), then check builds
\* its first Status
RunVersion ==
    /\ pc = "run"
    /\ \E ok \in Outcomes :
         IF ok
         THEN /\ current_version' = devVersion
              /\ status' = StatusFirst(devVersion, SomeMtu(MTU), NoCorrelation)
              /\ pc' = "report"
              /\ failOp' = failOp
         ELSE /\ Fail("version")
              /\ UNCHANGED <<current_version, status>>
    /\ calls' = Bump("version")
    /\ step' = 0
    /\ cmd' = NoCmd
    /\ UNCHANGED <<metadata, data, MTU, invocation, swapTrace, writes, devVersion,
                   devPending, devFaulty, updater, entryVersion, devHonest,
                   mainVars, cloudVars, gattVars, simVars>>

\* FirmwareUpdater::check, `let cmd = self.report(&status, name).await?`
Report ==
    /\ pc = "report"
    /\ updater = "File"
    /\ step < MaxSteps
    /\ cmd' = report(status, metadata, data)
    /\ pc' = IF cmd'.kind = "Panic" THEN "panic" ELSE "dispatch"
    /\ step' = step + 1
    /\ calls' = Bump("report")
    /\ UNCHANGED <<metadata, data, MTU, current_version, status, failOp, invocation,
                   swapTrace, writes, devVersion, devPending, devFaulty, updater,
                   entryVersion, devHonest,
                   mainVars, cloudVars, gattVars, simVars>>

\* the device's record once it has accepted a write
Accepted(pending, c) ==
    SomeUpdate(IF pending.present THEN pending.version ELSE c.version,
               c.offset + Len(c.data))

\* mutant: the next Status counts the bytes of the last Write only
NextOffset_last_write(c) == Len(c.data)

\* the offset of the Status that follows a Write: `offset + data.len() as u32`
NextOffset(c) == c.offset + Len(c.data)

\* mutant: every Write starts a new update on the device
Starts_always(c) == TRUE

\* `if offset == 0`: the Write starts a new update on the device
Starts(c) == c.offset = 0

\* FirmwareUpdater::check, the Command::Write arm
WriteArm ==
    /\ pc = "dispatch"
    /\ cmd.kind = "Write"
    /\ LET starts  == Starts(cmd)
           started == IF starts THEN SomeUpdate(cmd.version, 0) ELSE devPending
           base    == IF starts THEN <<>> ELSE writes
       IN  \/ \* device.start() fails
              /\ starts
              /\ FALSE \in Outcomes
              /\ Fail("start")
              /\ calls' = Bump("start")
              /\ writes' = <<>>
              /\ UNCHANGED <<status, devPending>>
           \/ \* device.write() fails, with or without the bytes persisted
              /\ FALSE \in Outcomes
              /\ Fail("write")
              /\ calls' = [calls EXCEPT !.start = IF starts THEN @ + 1 ELSE @,
                                        !.write = @ + 1]
              /\ writes' = Append(base, <<cmd.offset, cmd.data>>)
              /\ \E persisted \in BOOLEAN :
                   devPending' = IF persisted THEN Accepted(started, cmd) ELSE started
              /\ UNCHANGED status
           \/ \* both succeed
              /\ calls' = [calls EXCEPT !.start = IF starts THEN @ + 1 ELSE @,
                                        !.write = @ + 1]
              /\ writes' = Append(base, <<cmd.offset, cmd.data>>)
              /\ devPending' = Accepted(started, cmd)
              /\ status' = StatusUpdate(current_version, SomeMtu(MTU),
                                        NextOffset(cmd), cmd.version, NoCorrelation)
              /\ pc' = "report"
              /\ failOp' = failOp
    /\ UNCHANGED <<metadata, data, MTU, current_version, cmd, step, invocation,
                   swapTrace, devVersion, devFaulty, updater, entryVersion, devHonest,
                   mainVars, cloudVars, gattVars, simVars>>

\* mutant: the Sync arm does not return from check
SyncArm_no_return ==
    /\ pc = "dispatch"
    /\ cmd.kind = "Sync"
    /\ \E ok \in Outcomes :
         IF ok
         THEN pc' = "report" /\ failOp' = failOp
         ELSE Fail("synced")
    /\ calls' = Bump("synced")
    /\ UNCHANGED <<metadata, data, MTU, current_version, status, cmd, step,
                   invocation, swapTrace, writes, devVersion, devPending, devFaulty, updater,
                   entryVersion, devHonest,
                   mainVars, cloudVars, gattVars, simVars>>

\* FirmwareUpdater::check, the Command::Sync arm
SyncArm ==
    /\ pc = "dispatch"
    /\ cmd.kind = "Sync"
    /\ \E ok \in Outcomes :
         IF ok
         THEN pc' = "done" /\ failOp' = failOp
         ELSE Fail("synced")
    /\ calls' = Bump("synced")
    /\ UNCHANGED <<metadata, data, MTU, current_version, status, cmd, step,
                   invocation, swapTrace, writes, devVersion, devPending, devFaulty, updater,
                   entryVersion, devHonest,
                   mainVars, cloudVars, gattVars, simVars>>

\* FirmwareUpdater::check, the Command::Swap arm; Ok(false) sends run back to
\* device.version()
SwapArm ==
    /\ pc = "dispatch"
    /\ cmd.kind = "Swap"
    /\ calls.swap < MaxSwaps
    /\ \E ev \in SwapEvents :
         /\ swapTrace' = SwapClass(ev)
         /\ IF swap(ev) = "Ok"
            THEN pc' = "run" /\ failOp' = failOp
            ELSE Fail("swap")
         /\ IF SwapCommitted(ev)
            THEN /\ devPending' = NoUpdate
                 /\ devVersion' = IF devHonest /\ devPending.present
                                  THEN devPending.version
                                  ELSE devVersion
            ELSE UNCHANGED <<devPending, devVersion>>
    /\ calls' = Bump("swap")
    /\ UNCHANGED <<metadata, data, MTU, current_version, status, cmd, step,
                   invocation, writes, devFaulty, updater, entryVersion, devHonest,
                   mainVars, cloudVars, gattVars, simVars>>

\* run is invoked again on the same device after it returned
Rerun ==
    /\ pc \in {"err", "done"}
    /\ invocation < MaxRuns
    /\ invocation' = invocation + 1
    /\ pc' = "run"
    /\ current_version' = ""
    /\ status' = NoStatus
    /\ cmd' = NoCmd
    /\ step' = 0
    /\ calls' = NoCalls
    /\ failOp' = "none"
    /\ swapTrace' = "none"
    /\ entryVersion' = devVersion
    /\ UNCHANGED <<metadata, data, MTU, writes, devVersion, devPending, devFaulty, updater,
                   devHonest,
                   mainVars, cloudVars, gattVars, simVars>>

DriverStep == RunVersion \/ Report \/ WriteArm \/ SyncArm \/ SwapArm

Next == DriverStep \/ Rerun

Spec == Init /\ [][Next]_vars

\* run is sequential code: while it has a step to take, it takes it
FairSpec == Spec /\ WF_vars(DriverStep)

\* ------------------------------------- the planner on an arbitrary Status

Statuses ==
    [version : Versions,
     mtu : {NoMtu} \cup {SomeMtu(n) : n \in 0..MaxMtu},
     update : {NoUpdate} \cup {SomeUpdate(ver, off) : ver \in Versions,
                                                      off \in 0..(MaxLen + 2)},
     correlation_id : {NoCorrelation, 1}]

\* report is about to be called with any Status on any image
PlannerInit ==
    /\ data \in Images
    /\ metadata \in [version : Versions, size : Sizes(data)]
    /\ status \in Statuses
    /\ MTU = 1
    /\ pc = "report"
    /\ current_version = ""
    /\ cmd = NoCmd
    /\ step = 0
    /\ calls = NoCalls
    /\ failOp = "none"
    /\ invocation = 1
    /\ swapTrace = "none"
    /\ writes = <<>>
    /\ devVersion = "1.0"
    /\ devPending = NoUpdate
    /\ devFaulty = FALSE
    /\ devHonest = TRUE
    /\ entryVersion = devVersion
    /\ updater = "File"
    /\ MainIdle
    /\ CloudIdle
    /\ GattIdle
    /\ SimIdle

PlannerNext == Report

PlannerSpec == PlannerInit /\ [][PlannerNext]_vars

\* ------------------------------------------------------ the upload command

\* main, Mode::Upload: the transport is opened, then source.run(device)
MainOpen ==
    /\ mainPc = "main"
    /\ \/ /\ transport = "Serial"
          /\ \E opened \in BOOLEAN :
               IF opened
               THEN mainPc' = "load" /\ exitCode' = exitCode
               ELSE mainPc' = "exit" /\ exitCode' = 1
       \/ /\ transport = "Simulated"
          /\ mainPc' = "load"
          /\ exitCode' = exitCode
    /\ UNCHANGED <<transport, source, runLog, printed, driverVars, cloudVars, gattVars, simVars>>

\* FirmwareSource::run up to the loop: the File source reads the metadata and
\* the firmware file, the Cloud source only builds its service
MainLoad ==
    /\ mainPc = "load"
    /\ \/ /\ source = "File"
          /\ \E loaded \in BOOLEAN :
               IF loaded
               THEN mainPc' = "loop" /\ exitCode' = exitCode
               ELSE mainPc' = "exit" /\ exitCode' = 1
       \/ /\ source = "Cloud"
          /\ mainPc' = "loop"
          /\ exitCode' = exitCode
    /\ UNCHANGED <<transport, source, runLog, printed, driverVars, cloudVars, gattVars, simVars>>

\* results of updater.run
RunResults == {"Synced", "Updated", "Err"}

\* what the loop does with a result of updater.run: leave it or go round again
AfterRun(r) == IF r = "Synced" THEN "report" ELSE "loop"

\* FirmwareSource::run, one turn of
\* `loop { if let Ok(DeviceStatus::Synced(_)) = updater.run(..).await { break; } }`
MainRun ==
    /\ mainPc = "loop"
    /\ Len(runLog) < MaxMainRuns
    /\ \E r \in RunResults :
         /\ runLog' = Append(runLog, r)
         /\ mainPc' = AfterRun(r)
    /\ UNCHANGED <<transport, source, printed, exitCode, driverVars, cloudVars, gattVars, simVars>>

\* FirmwareSource::run after the loop: println!("Firmware updated"); Ok(()),
\* and main returns Ok(())
MainReport ==
    /\ mainPc = "report"
    /\ printed' = TRUE
    /\ mainPc' = "exit"
    /\ exitCode' = 0
    /\ UNCHANGED <<transport, source, runLog, driverVars, cloudVars, gattVars, simVars>>

MainInit ==
    /\ mainPc = "main"
    /\ transport \in {"Serial", "Simulated"}
    /\ source \in {"File", "Cloud"}
    /\ runLog = <<>>
    /\ printed = FALSE
    /\ exitCode = -1
    /\ DriverIdle
    /\ CloudIdle
    /\ GattIdle
    /\ SimIdle

MainNext == MainOpen \/ MainLoad \/ MainRun \/ MainReport

MainSpec == MainInit /\ [][MainNext]_vars

\* the upload command is sequential code as well
MainFairSpec == MainSpec /\ WF_vars(MainNext)

\* ---------------------------------------------- the Cloud arm of report
\* FirmwareUpdater::report, Self::Cloud: POST the Status, decode the answer.

\* serde_cbor::to_vec: the value as a well-formed CBOR document
to_vec(value) == [wellformed |-> TRUE, value |-> value]

\* a body that is no CBOR document of a Command
Garbage == [wellformed |-> FALSE, value |-> NoCmd]

\* serde_cbor::from_slice::<CommandRef>(&payload) followed by cmd.into():
\* Ok with the Command a well-formed body holds, Err for any other body
from_slice(body) ==
    IF body.wellformed THEN [ok |-> TRUE, cmd |-> body.value]
    ELSE [ok |-> FALSE, cmd |-> NoCmd]

\* the Commands the service sends in the model
CloudCommands ==
    {new_sync("2.0", NoPoll, NoCorrelation),
     new_write("2.0", 0, <<0>>, NoCorrelation),
     new_write("2.0", 1, <<1>>, NoCorrelation),
     new_write("1.9", 1, <<1>>, NoCorrelation),
     new_swap("2.0", ZeroChecksum, NoCorrelation)}

\* what one POST can come back with: send() fails (sent = FALSE), an answer
\* with a status outside 2xx (success = FALSE), a 2xx answer whose body cannot
\* be read (read = FALSE), a 2xx answer with a body
Responses ==
    {[sent |-> FALSE, success |-> FALSE, read |-> FALSE, body |-> Garbage],
     [sent |-> TRUE, success |-> FALSE, read |-> FALSE, body |-> Garbage],
     [sent |-> TRUE, success |-> TRUE, read |-> FALSE, body |-> Garbage],
     [sent |-> TRUE, success |-> TRUE, read |-> TRUE, body |-> Garbage]}
    \cup {[sent |-> TRUE, success |-> TRUE, read |-> TRUE, body |-> to_vec(c)] :
            c \in CloudCommands}

\* mutant: an answer outside 2xx is slept on and asked again
AfterResponse_retries_status(r) ==
    IF ~r.sent THEN "return_err"
    ELSE IF ~r.success THEN "sleep"
    ELSE IF r.read /\ from_slice(r.body).ok THEN "return_ok"
    ELSE "sleep"

\* mutant: a body that does not parse ends the call
AfterResponse_gives_up(r) ==
    IF ~r.sent THEN "return_err"
    ELSE IF ~r.success THEN "return_err"
    ELSE IF r.read /\ from_slice(r.body).ok THEN "return_ok"
    ELSE "return_err"

\* `match result`: where the loop goes after one POST
AfterResponse(r) ==
    IF ~r.sent THEN "return_err"
    ELSE IF ~r.success THEN "return_err"
    ELSE IF r.read /\ from_slice(r.body).ok THEN "return_ok"
    ELSE "sleep"

\* one turn of the loop up to its return or its sleep: encode the Status, POST
\* it with the "as" query parameter (the "ct" parameter is the updater's fixed
\* timeout), and match the result
CloudPost ==
    /\ cPc = "post"
    /\ Len(cPosts) < MaxPosts
    /\ \E r \in Responses :
        /\ cPosts' = Append(cPosts, [payload |-> to_vec(cStatus), as |-> cName,
                                     response |-> r])
        /\ cPc' = AfterResponse(r)
        /\ cResult' = IF AfterResponse(r) = "return_ok" THEN from_slice(r.body).cmd
                      ELSE cResult
    /\ UNCHANGED <<cStatus, cName, cSleeps, driverVars, mainVars, gattVars, simVars>>

\* sleep(Duration::from_secs(1)), then the loop starts over
CloudSleep ==
    /\ cPc = "sleep"
    /\ cSleeps' = cSleeps + 1
    /\ cPc' = "post"
    /\ UNCHANGED <<cStatus, cName, cPosts, cResult, driverVars, mainVars, gattVars, simVars>>

\* the Statuses report is called with in the model
CloudStatuses ==
    {StatusFirst("1.0", SomeMtu(1), NoCorrelation),
     StatusFirst("2.0", NoMtu, NoCorrelation),
     StatusUpdate("1.0", SomeMtu(1), 1, "2.0", NoCorrelation)}

\* report is called on a Cloud updater with any Status and any name
CloudInit ==
    /\ cPc = "post"
    /\ cStatus \in CloudStatuses
    /\ cName \in {"", "device1"}
    /\ cPosts = <<>>
    /\ cSleeps = 0
    /\ cResult = NoCmd
    /\ DriverIdle
    /\ MainIdle
    /\ GattIdle
    /\ SimIdle

CloudNext == CloudPost \/ CloudSleep

CloudSpec == CloudInit /\ [][CloudNext]_vars

\* ------------------------------------------------------- the GATT transport
\* GattBoard of src/gatt.rs and the device behind its characteristics.

\* the result of one read_char or write_char
CharOk == IF gFaulty THEN BOOLEAN ELSE {TRUE}

\* whether a characteristic write reached the device: always when write_char
\* returned Ok; when it returned Err the failure came before the write
\* (connect, find_char) or after it (the response)
Delivered(ok) == IF ok THEN {TRUE} ELSE BOOLEAN

\* self.board after a characteristic operation: connect sets it before the
\* operation proper, and fails without setting it
Connected(ok) == IF ok THEN {TRUE} ELSE {gBoard, TRUE}

\* a write to the control characteristic
Control(byte) == [char |-> "control", bytes |-> <<byte>>]

\* a write to the firmware characteristic
Firmware(bytes) == [char |-> "firmware", bytes |-> bytes]

\* `buf[0..mtu]` after the chunk was copied in and the rest filled with 0
Padded(chunk, mtu) ==
    [i \in 1..mtu |-> IF i <= Len(chunk) THEN chunk[i] ELSE 0]

\* the operation returns to its caller
GattReturn(res) ==
    /\ gPc' = "ready"
    /\ gResult' = res

\* an operation of FirmwareDevice is called
GattCall(op) ==
    /\ gPc = "ready"
    /\ gOps < MaxGattOps
    /\ gOps' = gOps + 1
    /\ gOp' = op

\* FirmwareDevice::status: three characteristic reads
GattStatus ==
    /\ GattCall("status")
    /\ \E ok \in CharOk :
        /\ GattReturn(IF ok THEN "ok" ELSE "err")
        /\ gBoard' \in Connected(ok)
    /\ UNCHANGED <<gUpdated, gMtu, gArg, gOffset, gRest, gMarks, gSwaps, gOwed,
                   gFaulty, dMtu, dOffset, dInbox, driverVars, mainVars, cloudVars, simVars>>

\* FirmwareDevice::start up to the wait: the next version is written, then
\* control byte 1
GattStart ==
    /\ GattCall("start")
    /\ \E ok \in CharOk :
        /\ gBoard' \in Connected(ok)
        /\ \E sent \in Delivered(ok) :
            dInbox' = IF sent THEN Append(dInbox, Control(1)) ELSE dInbox
        /\ IF ok
           THEN gPc' = "start_poll" /\ gResult' = "pending"
           ELSE GattReturn("err")
    /\ UNCHANGED <<gUpdated, gMtu, gArg, gOffset, gRest, gMarks, gSwaps, gOwed,
                   gFaulty, dMtu, dOffset, driverVars, mainVars, cloudVars, simVars>>

\* start_firmware_update: "wait until firmware offset is reset"; a read of any
\* other offset sleeps a second and reads again
GattStartPoll ==
    /\ gPc = "start_poll"
    /\ \E ok \in CharOk :
        /\ gBoard' \in Connected(ok)
        /\ IF ok
           THEN dOffset = 0 /\ GattReturn("ok")
           ELSE GattReturn("err")
    /\ UNCHANGED <<gOp, gOps, gUpdated, gMtu, gArg, gOffset, gRest, gMarks, gSwaps,
                   gOwed, gFaulty, dMtu, dOffset, dInbox, driverVars, mainVars,
                   cloudVars, simVars>>

\* FirmwareDevice::write up to the first chunk: the MTU characteristic is read
\* once per GattBoard
GattWrite ==
    /\ GattCall("write")
    /\ \E offset \in 0..MaxGattLen, n \in 0..MaxGattLen, ok \in CharOk :
        /\ gArg' = [offset |-> offset, data |-> [i \in 1..n |-> 1]]
        /\ IF gMtu.present
           THEN ok /\ UNCHANGED <<gMtu, gBoard>>
           ELSE /\ gBoard' \in Connected(ok)
                /\ gMtu' = IF ok THEN SomeMtu(dMtu) ELSE gMtu
        /\ IF ~ok THEN GattReturn("err") /\ UNCHANGED <<gOffset, gRest>>
           ELSE /\ gOffset' = offset
                /\ gRest' = [i \in 1..n |-> 1]
                /\ IF n = 0 THEN GattReturn("ok")
                   ELSE gPc' = "write_chunk" /\ gResult' = "pending"
    /\ UNCHANGED <<gUpdated, gMarks, gSwaps, gOwed, gFaulty, dMtu, dOffset, dInbox,
                   driverVars, mainVars, cloudVars, simVars>>

\* write_firmware, one chunk: the chunk is padded to the MTU, written to the
\* firmware characteristic, and the local offset advanced by the MTU
GattWriteChunk ==
    /\ gPc = "write_chunk"
    /\ LET mtu == gMtu.value
           chunk == SubSeq(gRest, 1, Min(mtu, Len(gRest)))
       IN \E ok \in CharOk :
            /\ gBoard' \in Connected(ok)
            /\ \E sent \in Delivered(ok) :
                dInbox' = IF sent THEN Append(dInbox, Firmware(Padded(chunk, mtu)))
                          ELSE dInbox
            /\ IF ok
               THEN /\ gOffset' = gOffset + mtu
                    /\ gRest' = SubSeq(gRest, Len(chunk) + 1, Len(gRest))
                    /\ gPc' = "write_poll"
                    /\ UNCHANGED gResult
               ELSE GattReturn("err") /\ UNCHANGED <<gOffset, gRest>>
    /\ UNCHANGED <<gOp, gOps, gUpdated, gMtu, gArg, gMarks, gSwaps, gOwed, gFaulty,
                   dMtu, dOffset, driverVars, mainVars, cloudVars, simVars>>

\* write_firmware: "wait until firmware offset is incremented"; a read of any
\* other offset sleeps a second and reads again
GattWritePoll ==
    /\ gPc = "write_poll"
    /\ \E ok \in CharOk :
        /\ gBoard' \in Connected(ok)
        /\ IF ok
           THEN /\ dOffset = gOffset
                /\ IF gRest = <<>> THEN GattReturn("ok")
                   ELSE gPc' = "write_chunk" /\ UNCHANGED gResult
           ELSE GattReturn("err")
    /\ UNCHANGED <<gOp, gOps, gUpdated, gMtu, gArg, gOffset, gRest, gMarks, gSwaps,
                   gOwed, gFaulty, dMtu, dOffset, dInbox, driverVars, mainVars,
                   cloudVars, simVars>>

\* FirmwareDevice::update: control byte 2; on Ok the board is disconnected and
\* updated is set, on Err the `?` returns before either
GattUpdate ==
    /\ GattCall("update")
    /\ \E ok \in CharOk :
        /\ \E sent \in Delivered(ok) :
            dInbox' = IF sent THEN Append(dInbox, Control(2)) ELSE dInbox
        /\ IF ok
           THEN /\ gBoard' = FALSE
                /\ gUpdated' = TRUE
                /\ gSwaps' = gSwaps + 1
                /\ gOwed' = TRUE
                /\ GattReturn("ok")
           ELSE /\ gBoard' \in Connected(ok)
                /\ UNCHANGED <<gUpdated, gSwaps, gOwed>>
                /\ GattReturn("err")
    /\ UNCHANGED <<gMtu, gArg, gOffset, gRest, gMarks, gFaulty, dMtu, dOffset,
                   driverVars, mainVars, cloudVars, simVars>>

\* mutant: synced leaves the updated flag set
GattSynced_keeps_flag ==
    /\ GattCall("synced")
    /\ IF gUpdated
       THEN \E ok \in CharOk :
            /\ gMarks' = gMarks + 1
            /\ gOwed' = FALSE
            /\ gBoard' \in Connected(ok)
            /\ \E sent \in Delivered(ok) :
                dInbox' = IF sent THEN Append(dInbox, Control(3)) ELSE dInbox
            /\ GattReturn(IF ok THEN "ok" ELSE "err")
            /\ UNCHANGED gUpdated
       ELSE /\ GattReturn("ok")
            /\ UNCHANGED <<gUpdated, gMarks, gOwed, gBoard, dInbox>>
    /\ UNCHANGED <<gMtu, gArg, gOffset, gRest, gSwaps, gFaulty, dMtu, dOffset,
                   driverVars, mainVars, cloudVars, simVars>>

\* FirmwareDevice::synced: with updated set, the flag is cleared and
\* mark_booted writes control byte 3; otherwise nothing is done
GattSynced ==
    /\ GattCall("synced")
    /\ IF gUpdated
       THEN \E ok \in CharOk :
            /\ gUpdated' = FALSE
            /\ gMarks' = gMarks + 1
            /\ gOwed' = FALSE
            /\ gBoard' \in Connected(ok)
            /\ \E sent \in Delivered(ok) :
                dInbox' = IF sent THEN Append(dInbox, Control(3)) ELSE dInbox
            /\ GattReturn(IF ok THEN "ok" ELSE "err")
       ELSE /\ GattReturn("ok")
            /\ UNCHANGED <<gUpdated, gMarks, gOwed, gBoard, dInbox>>
    /\ UNCHANGED <<gMtu, gArg, gOffset, gRest, gSwaps, gFaulty, dMtu, dOffset,
                   driverVars, mainVars, cloudVars, simVars>>

\* the device acts on the oldest characteristic write: bytes written to the
\* firmware characteristic advance its offset by their number, control byte 1
\* resets the offset (the two conditions the GattBoard waits for)
DevProcess ==
    /\ dInbox /= <<>>
    /\ LET w == Head(dInbox)
       IN dOffset' = IF w.char = "firmware" THEN dOffset + Len(w.bytes)
                     ELSE IF w.bytes = <<1>> THEN 0
                     ELSE dOffset
    /\ dInbox' = Tail(dInbox)
    /\ UNCHANGED <<gPc, gOp, gResult, gOps, gUpdated, gMtu, gBoard, gArg, gOffset,
                   gRest, gMarks, gSwaps, gOwed, gFaulty, dMtu, driverVars, mainVars,
                   cloudVars, simVars>>

\* GattBoard::new, and a device with any MTU characteristic
GattInit ==
    /\ gPc = "ready"
    /\ gOp = "none"
    /\ gResult = "none"
    /\ gOps = 0
    /\ gUpdated = FALSE
    /\ gMtu = NoMtu
    /\ gBoard = FALSE
    /\ gArg = [offset |-> 0, data |-> <<>>]
    /\ gOffset = 0
    /\ gRest = <<>>
    /\ gMarks = 0
    /\ gSwaps = 0
    /\ gOwed = FALSE
    /\ gFaulty \in BOOLEAN
    /\ dMtu \in 1..MaxChunk
    /\ dOffset = 0
    /\ dInbox = <<>>
    /\ DriverIdle
    /\ MainIdle
    /\ CloudIdle
    /\ SimIdle

GattNext ==
    \/ GattStatus
    \/ GattStart
    \/ GattStartPoll
    \/ GattWrite
    \/ GattWriteChunk
    \/ GattWritePoll
    \/ GattUpdate
    \/ GattSynced
    \/ DevProcess

GattSpec == GattInit /\ [][GattNext]_vars

\* ------------------------------------------- the driver on either updater
\* FirmwareUpdater::check with report's File arm or its Cloud arm.

\* check calls report on a Cloud updater: the loop of the Cloud arm starts
CloudCall ==
    /\ pc = "report"
    /\ updater = "Cloud"
    /\ step < MaxCloudSteps
    /\ pc' = "cloud"
    /\ step' = step + 1
    /\ calls' = Bump("report")
    /\ cPc' = "post"
    /\ cStatus' = status
    /\ cName' = ""
    /\ cPosts' = <<>>
    /\ cSleeps' = 0
    /\ cResult' = NoCmd
    /\ UNCHANGED <<metadata, data, MTU, current_version, status, cmd, failOp,
                   invocation, swapTrace, writes, devVersion, devPending, devFaulty,
                   updater, entryVersion, devHonest, mainVars, gattVars, simVars>>

\* report's Cloud arm returns: `?` in check passes an Err on, an Ok is the
\* Command to dispatch
CloudReturn ==
    /\ pc = "cloud"
    /\ cPc \in {"return_ok", "return_err"}
    /\ IF cPc = "return_ok"
       THEN cmd' = cResult /\ pc' = "dispatch" /\ failOp' = failOp
       ELSE Fail("report") /\ cmd' = cmd
    /\ cPc' = "off"
    /\ cStatus' = NoStatus
    /\ cName' = ""
    /\ cPosts' = <<>>
    /\ cSleeps' = 0
    /\ cResult' = NoCmd
    /\ UNCHANGED <<metadata, data, MTU, current_version, status, step, calls,
                   invocation, swapTrace, writes, devVersion, devPending, devFaulty,
                   updater, entryVersion, devHonest, mainVars, gattVars, simVars>>

\* run is entered for the first time on a File updater with any image, or on a
\* Cloud updater, which holds no image and is run against one device type
SessionInit ==
    /\ updater \in {"File", "Cloud"}
    /\ data \in IF updater = "File" THEN Images ELSE {<<>>}
    /\ metadata \in IF updater = "File"
                    THEN [version : {"1.9", "2.0"}, size : Sizes(data)]
                    ELSE {[version |-> "", size |-> 0]}
    /\ MTU \in IF updater = "File" THEN 1..MaxMtu ELSE {1}
    /\ pc = "run"
    /\ current_version = ""
    /\ status = NoStatus
    /\ cmd = NoCmd
    /\ step = 0
    /\ calls = NoCalls
    /\ failOp = "none"
    /\ invocation = 1
    /\ swapTrace = "none"
    /\ writes = <<>>
    /\ devVersion \in IF updater = "File" THEN {"1.0", "2.0"} ELSE {"1.0"}
    /\ devPending = NoUpdate
    /\ devFaulty \in BOOLEAN
    /\ devHonest \in IF updater = "File" THEN BOOLEAN ELSE {TRUE}
    /\ entryVersion = devVersion
    /\ MainIdle
    /\ CloudIdle
    /\ GattIdle
    /\ SimIdle

\* one invocation of run
SessionNext == DriverStep \/ CloudCall \/ CloudPost \/ CloudSleep \/ CloudReturn

SessionSpec == SessionInit /\ [][SessionNext]_vars

\* ---------------------------------------------------- the device simulator
\* FirmwareUpdater::run on a File updater against DeviceSimulator.

\* the bytes of the model's firmware files: '0', '1', and a byte that is not
\* valid UTF-8
SimBytes == {48, 49, 255}

\* core::str::from_utf8 succeeds
Utf8Ok(bytes) == \A i \in 1..Len(bytes) : bytes[i] < 128

\* the character a byte encodes
Char(b) == IF b = 48 THEN "0" ELSE "1"

\* mutant: the version is read from the flash behind the first four bytes
VersionBytes_shifted(fl) == SubSeq(fl, 2, VERSION_LEN + 1)

\* `&self.flash[0..4]`
VersionBytes(fl) == SubSeq(fl, 1, VERSION_LEN)

\* core::str::from_utf8(..)?.to_string(), for bytes that are valid UTF-8
RECURSIVE from_utf8(_)
from_utf8(bytes) ==
    IF bytes = <<>> THEN "" ELSE Char(Head(bytes)) \o from_utf8(Tail(bytes))

\* `self.flash[offset..offset + data.len()].copy_from_slice(data)`
copy_from_slice(fl, offset, d) ==
    [i \in 1..Len(fl) |->
        IF i > offset /\ i <= offset + Len(d) THEN d[i - offset] ELSE fl[i]]

\* the Write arm of check against DeviceSimulator: start always returns Ok,
\* write refuses what reaches the end of the flash
SimWriteArm ==
    /\ pc = "dispatch"
    /\ cmd.kind = "Write"
    /\ LET starts == Starts(cmd)
           base   == IF starts THEN <<>> ELSE writes
       IN  /\ calls' = [calls EXCEPT !.start = IF starts THEN @ + 1 ELSE @,
                                     !.write = @ + 1]
           /\ writes' = Append(base, <<cmd.offset, cmd.data>>)
           /\ IF cmd.offset + Len(cmd.data) >= Len(flash)
              THEN /\ Fail("write")
                   /\ UNCHANGED <<status, flash>>
              ELSE /\ flash' = copy_from_slice(flash, cmd.offset, cmd.data)
                   /\ status' = StatusUpdate(current_version, SomeMtu(MTU),
                                             NextOffset(cmd), cmd.version, NoCorrelation)
                   /\ pc' = "report"
                   /\ failOp' = failOp
    /\ UNCHANGED <<metadata, data, MTU, current_version, cmd, step, invocation,
                   swapTrace, devVersion, devPending, devFaulty, updater, entryVersion,
                   devHonest, mainVars, cloudVars, gattVars>>

\* the Swap arm of check against DeviceSimulator: the version becomes the
\* first four bytes of the flash, and swap fails when they are not UTF-8
SimSwapArm ==
    /\ pc = "dispatch"
    /\ cmd.kind = "Swap"
    /\ calls.swap < MaxSwaps
    /\ IF Utf8Ok(VersionBytes(flash))
       THEN /\ devVersion' = from_utf8(VersionBytes(flash))
            /\ pc' = "run"
            /\ failOp' = failOp
       ELSE /\ Fail("swap")
            /\ UNCHANGED devVersion
    /\ calls' = Bump("swap")
    /\ UNCHANGED <<metadata, data, MTU, current_version, status, cmd, step,
                   invocation, swapTrace, writes, devPending, devFaulty, updater,
                   entryVersion, devHonest, flash, mainVars, cloudVars, gattVars>>

\* the firmware files run against the simulator: any leading bytes, followed
\* or not by one more chunk of '0's
SimImages ==
    {head \o [i \in 1..n |-> 48] :
        head \in UNION {[1..k -> SimBytes] : k \in 0..MaxSimHead}, n \in {0, SIM_MTU}}

\* the versions the metadata names in the model
SimVersions == {"0000", "1000", "1101"}

\* DeviceSimulator::new, and run entered on a File updater with any image
SimInit ==
    /\ data \in SimImages
    /\ metadata \in [version : SimVersions, size : {Len(data)}]
    /\ MTU = SIM_MTU
    /\ pc = "run"
    /\ current_version = ""
    /\ status = NoStatus
    /\ cmd = NoCmd
    /\ step = 0
    /\ calls = NoCalls
    /\ failOp = "none"
    /\ invocation = 1
    /\ swapTrace = "none"
    /\ writes = <<>>
    /\ devVersion = "0000"
    /\ devPending = NoUpdate
    /\ devFaulty = FALSE
    /\ devHonest = TRUE
    /\ entryVersion = devVersion
    /\ updater = "File"
    /\ flash = [i \in 1..FLASH_SIZE |-> 48]
    /\ MainIdle
    /\ CloudIdle
    /\ GattIdle

SimNext == RunVersion \/ Report \/ SimWriteArm \/ SyncArm \/ SimSwapArm

SimSpec == SimInit /\ [][SimNext]_vars

\* run is sequential code: while it has a step to take, it takes it
SimFairSpec == SimSpec /\ WF_vars(SimNext)

\* ------------------------------------------------------------ the claims

\* the image of the data model: the declared size is the length of the bytes
ImageOk == metadata.size = Len(data)

\* a Command has come back from the planner
Planned == pc = "dispatch" \/ pc = "panic"

\* every write starts where the one before it ended, the first at 0
Contiguous(ws) ==
    \A i \in 1..Len(ws) :
        ws[i][1] = IF i = 1 THEN 0 ELSE ws[i - 1][1] + Len(ws[i - 1][2])

\* the data of the writes, joined in order
RECURSIVE Joined(_)
Joined(ws) == IF ws = <<>> THEN <<>> ELSE ws[1][2] \o Joined(Tail(ws))

\* C1: when device.swap is about to be called, the writes issued since the
\* last device.start are contiguous from offset 0, their data joined in order
\* is the image, and their lengths sum to the image size.
C1_WritesFormImage ==
    (pc = "dispatch" /\ cmd.kind = "Swap" /\ ImageOk) =>
        /\ Contiguous(writes)
        /\ Joined(writes) = data
        /\ Len(Joined(writes)) = metadata.size

C1_Witness ==
    /\ pc = "dispatch"
    /\ cmd.kind = "Swap"
    /\ ImageOk
    /\ Len(writes) >= 2
    /\ writes[2][1] > 0

\* C2: a Write the planner returns carries at most min(mtu_used, size - offset)
\* bytes and ends within the image, mtu_used being S.mtu or 4096.
C2_WriteWithinBounds ==
    (pc = "dispatch" /\ cmd.kind = "Write" /\ ImageOk) =>
        LET mtu_used == IF status.mtu.present THEN status.mtu.value ELSE 4096
        IN  /\ cmd.offset <= metadata.size
            /\ Len(cmd.data) <= Min(mtu_used, metadata.size - cmd.offset)
            /\ cmd.offset + Len(cmd.data) <= metadata.size

C2_Witness ==
    /\ pc = "dispatch"
    /\ cmd.kind = "Write"
    /\ ImageOk
    /\ status.mtu.present
    /\ cmd.offset > 0
    /\ Len(cmd.data) = status.mtu.value
    /\ Len(cmd.data) < metadata.size - cmd.offset

\* C3: a Status whose version is the image's gets Sync with that version and
\* no poll hint, whatever its update record and mtu are.
C3_SyncWhenVersionsMatch ==
    (Planned /\ status.version = metadata.version) =>
        /\ cmd.kind = "Sync"
        /\ cmd.version = status.version
        /\ cmd.poll = NoPoll

C3_Witness ==
    /\ pc = "dispatch"
    /\ status.version = metadata.version
    /\ status.update.present
    /\ status.update.version = metadata.version
    /\ status.update.offset = metadata.size
    /\ cmd.kind = "Sync"

\* what run does when the device already ran the image's version on entry
C4_Safe ==
    entryVersion = metadata.version =>
        /\ calls.start = 0
        /\ calls.write = 0
        /\ calls.swap = 0
        /\ calls.report <= 1
        /\ calls.synced <= 1
        /\ cmd.kind \in {"None", "Sync"}
        /\ (pc = "done" => calls.report = 1 /\ calls.synced = 1)
        /\ (~devFaulty => pc \notin {"err", "panic"})

\* C4: against a device that already runs the image's version, run makes one
\* source request, answered by Sync, never calls start, write or swap, calls
\* synced once and returns success.
C4_AlreadySynced ==
    /\ []C4_Safe
    /\ (entryVersion = metadata.version /\ ~devFaulty) ~> (pc = "done")

C4_Witness ==
    /\ entryVersion = metadata.version
    /\ invocation = 1
    /\ pc = "done"
    /\ cmd.kind = "Sync"
    /\ calls.report = 1
    /\ calls.synced = 1

\* run is entered with a consistent image, on a device whose operations
\* succeed and which runs the new image after a swap
C5_Pre ==
    /\ ImageOk
    /\ ~devFaulty
    /\ devHonest
    /\ MTU >= 1
    /\ pc = "run"
    /\ calls = NoCalls

\* the number of chunks an image is sent in; an empty image takes one write
C5_Chunks == IF Len(data) = 0 THEN 1 ELSE (Len(data) + MTU - 1) \div MTU

\* run has returned success after a final Sync; a device that needed the
\* update got all chunks and one swap, one that did not (C4) got none
C5_Goal ==
    /\ pc = "done"
    /\ cmd.kind = "Sync"
    /\ IF entryVersion = metadata.version
       THEN calls.swap = 0 /\ calls.write = 0
       ELSE calls.swap = 1 /\ calls.write = C5_Chunks

\* C5: with a consistent image, an MTU of at least 1 and a device whose
\* operations succeed and which reports the image's version after a swap, run
\* terminates with success after finitely many writes, one swap and a Sync.
C5_Terminates == C5_Pre ~> C5_Goal

C5_Witness ==
    /\ ImageOk
    /\ ~devFaulty
    /\ devHonest
    /\ pc = "done"
    /\ cmd.kind = "Sync"
    /\ calls.swap = 1
    /\ calls.write >= 2

\* C6: the first Status of every session carries the device's own pending
\* update record (none when nothing is pending), so the first Write of a
\* session that finds the image's own update pending is at the device's offset.
C6_FirstStatusCarriesPending ==
    /\ (pc = "report" /\ step = 0) => status.update = devPending
    /\ (/\ pc = "dispatch"
        /\ step = 1
        /\ cmd.kind = "Write"
        /\ devPending.present
        /\ devPending.version = metadata.version) => cmd.offset = devPending.offset

\* C7: a transport error after the swap request was sent does not make
\* device.swap fail; the driver goes on to query the version again.
C7_SwapLossIsDelivered ==
    swapTrace = "lost_after_send" => (failOp # "swap" /\ pc # "err")

\* C8: once device.write has returned an error, run has returned it, and
\* until run is invoked again no device operation and no source request is
\* made.
C8_WriteErrorEndsRun ==
    /\ [](failOp = "write" => pc = "err")
    /\ [][(failOp = "write" /\ invocation' = invocation) =>
             (calls' = calls /\ pc' = "err" /\ failOp' = "write")]_vars

C8_Witness ==
    /\ failOp = "write"
    /\ pc = "err"
    /\ calls.write >= 2
    /\ calls.report >= 2

\* C9: an error returned by updater.run ends the upload command with a
\* failure: it is the last run, no success report follows and the exit status
\* is not 0.
C9_ErrorEndsUpload ==
    \A i \in 1..Len(runLog) :
        runLog[i] = "Err" =>
            /\ i = Len(runLog)
            /\ mainPc \notin {"loop", "report"}
            /\ ~printed
            /\ exitCode # 0

\* a Status that asks to resume the image's own update at offset k
C10_Resuming ==
    /\ Planned
    /\ ImageOk
    /\ status.version # metadata.version
    /\ status.update.present
    /\ status.update.version = metadata.version

\* the Write that resumes at the Status's offset
C10_ResumeWrite ==
    LET k   == status.update.offset
        mtu == IF status.mtu.present THEN status.mtu.value ELSE 4096
    IN  /\ cmd.kind = "Write"
        /\ cmd.version = metadata.version
        /\ cmd.offset = k
        /\ cmd.data = SubSeq(data, k + 1, k + Min(mtu, metadata.size - k))

\* C10 as stated: every such Status with offset k # I.size gets the Write at
\* offset k with data I.bytes[k .. k + min(mtu, I.size - k)].
C10_AnyOtherOffset ==
    (C10_Resuming /\ status.update.offset # metadata.size) => C10_ResumeWrite

\* C10 amended: every such Status with offset k < I.size gets that Write.
C10_OffsetInsideImage ==
    (C10_Resuming /\ status.update.offset < metadata.size) => C10_ResumeWrite

C10_Witness ==
    /\ C10_Resuming
    /\ status.update.offset > 0
    /\ status.update.offset < metadata.size
    /\ status.mtu.present
    /\ status.mtu.value > 0
    /\ cmd.kind = "Write"

\* a Status that differs from the image's version and does not ask to resume
\* the image's own update
C11_Fresh ==
    /\ Planned
    /\ ImageOk
    /\ status.version # metadata.version
    /\ (~status.update.present \/ status.update.version # metadata.version)

\* C11: a Status with another version and no update record, or one that names
\* another version, gets Write with the image's version at offset 0 carrying
\* I.bytes[0 .. min(mtu, I.size)], whatever offset the stale record holds.
C11_StartsFromZero ==
    C11_Fresh =>
        LET mtu == IF status.mtu.present THEN status.mtu.value ELSE 4096
        IN  /\ cmd.kind = "Write"
            /\ cmd.version = metadata.version
            /\ cmd.offset = 0
            /\ cmd.data = SubSeq(data, 1, Min(mtu, metadata.size))

C11_Witness ==
    /\ C11_Fresh
    /\ status.update.present
    /\ status.update.offset > 0
    /\ status.update.offset < metadata.size
    /\ status.mtu.present
    /\ status.mtu.value > 0
    /\ cmd.kind = "Write"
    /\ cmd.offset = 0

\* the Status for which the planner is to answer Swap
C12_Complete ==
    /\ status.version # metadata.version
    /\ status.update.present
    /\ status.update.version = metadata.version
    /\ status.update.offset = metadata.size

\* C12: the planner returns Swap exactly for a Status of another version whose
\* update record names the image's version at offset I.size; the Swap carries
\* the image's version and 32 zero bytes.
C12_SwapIffComplete ==
    Planned =>
        /\ (cmd.kind = "Swap") <=> C12_Complete
        /\ cmd.kind = "Swap" =>
              /\ cmd.version = metadata.version
              /\ Len(cmd.checksum) = 32
              /\ \A i \in 1..32 : cmd.checksum[i] = 0

C12_Witness ==
    /\ Planned
    /\ C12_Complete
    /\ metadata.size > 0
    /\ cmd.kind = "Swap"

\* C13: every Write and every Swap of the planner carries the image's version,
\* so the Swap that answers a Status recording earlier Writes has their version.
C13_CommandsCarryImageVersion ==
    (Planned /\ cmd.kind \in {"Write", "Swap"}) =>
        /\ cmd.version = metadata.version
        /\ (cmd.kind = "Swap" => cmd.version = status.update.version)

C13_Witness ==
    /\ Planned
    /\ cmd.kind = "Write"
    /\ status.update.present
    /\ status.update.version # metadata.version
    /\ status.version # status.update.version

\* C14: a Status that names the image's version at an offset beyond I.size
\* gets a planner error: no crash and no Command.
C14_InconsistentStatusIsAnError ==
    (/\ Planned
     /\ status.version # metadata.version
     /\ status.update.present
     /\ status.update.version = metadata.version
     /\ status.update.offset > metadata.size) =>
        /\ pc # "panic"
        /\ cmd.kind \notin {"Panic", "Write", "Swap", "Sync"}


\* the POSTs of the call so far, and the answer to the i-th of them
Posted == Len(cPosts)
Answer(i) == cPosts[i].response

\* a 2xx answer whose body was read and is no Command
Unparseable(r) == r.sent /\ r.success /\ r.read /\ ~from_slice(r.body).ok

\* a 2xx answer whose body was read and holds a Command
Parseable(r) == r.sent /\ r.success /\ r.read /\ from_slice(r.body).ok

\* C17: on a Cloud updater a POST that fails in transport and a POST answered
\* outside 2xx each end the call with an error at once: it is the last POST of
\* the call, no Command is returned, and no sleep follows it (the sleeps taken
\* are those that followed the earlier POSTs).
C17_FailureEndsCall ==
    \A i \in 1..Posted :
        (~Answer(i).sent \/ ~Answer(i).success) =>
            /\ i = Posted
            /\ cPc = "return_err"
            /\ cResult = NoCmd
            /\ cSleeps = Posted - 1

\* a call that was retried once and then answered outside 2xx
C17_Witness ==
    /\ Posted = 2
    /\ Answer(2).sent
    /\ ~Answer(2).success
    /\ cPc = "return_err"

\* C18: on a Cloud updater, k answers in a row with a 2xx status and a body
\* that does not parse are each followed by one sleep and one more POST, and
\* when the next answer holds a Command C the call returns exactly C after
\* exactly k sleeps and k+1 POSTs; every POST carries the same encoded Status.
C18_RetriesUntilParsed ==
    /\ \A i \in 1..Posted : cPosts[i].payload = to_vec(cStatus)
    /\ (Posted > 0 /\ \A i \in 1..Posted : Unparseable(Answer(i))) =>
            \/ cPc = "sleep" /\ cSleeps = Posted - 1
            \/ cPc = "post" /\ cSleeps = Posted
    /\ (/\ Posted > 0
        /\ \A i \in 1..(Posted - 1) : Unparseable(Answer(i))
        /\ Parseable(Answer(Posted))) =>
            /\ cPc = "return_ok"
            /\ cResult = Answer(Posted).body.value
            /\ cSleeps = Posted - 1

\* two bodies that do not parse, then a Write: returned after two sleeps
C18_Witness ==
    /\ Posted = 3
    /\ Unparseable(Answer(1))
    /\ Unparseable(Answer(2))
    /\ Parseable(Answer(3))
    /\ cPc = "return_ok"
    /\ cResult.kind = "Write"
    /\ cSleeps = 2

\* C19: on a Cloud updater a body that does not parse is retried once: the
\* second such answer in a row is the last POST of the call, which ends with
\* an error.
C19_RetriedOnce ==
    \A i \in 1..(Posted - 1) :
        (Unparseable(Answer(i)) /\ Unparseable(Answer(i + 1))) =>
            /\ i + 1 = Posted
            /\ cPc = "return_err"


\* C15: on a GATT device, whenever write(offset, data) returns successfully
\* with data of 1 byte or more, the device's offset counter equals
\* offset + len(data), whether or not len(data) is a multiple of the device's
\* chunk size.
C15_WriteAdvancesByLength ==
    (gPc = "ready" /\ gOp = "write" /\ gResult = "ok" /\ Len(gArg.data) >= 1) =>
        dOffset = gArg.offset + Len(gArg.data)

\* the synced call in the step from this state to the next
SyncedStep == gOp' = "synced" /\ gOps' = gOps + 1

\* C16: on a GATT device synced() issues the mark-booted control write exactly
\* when a swap was dispatched on this GattBoard since the last mark-booted, no
\* other operation issues it, and so the mark-booted writes never outnumber
\* the swaps dispatched.
C16_MarkBootedOncePerSwap ==
    /\ [][SyncedStep => (gMarks' = IF gOwed THEN gMarks + 1 ELSE gMarks)]_vars
    /\ [][gMarks' /= gMarks => SyncedStep]_vars
    /\ [](gMarks <= gSwaps)

\* a swap, a synced that marked the firmware booted, and a second synced that
\* did not
C16_Witness ==
    /\ gOps = 3
    /\ gOp = "synced"
    /\ gSwaps = 1
    /\ gMarks = 1
    /\ ~gOwed


\* the offset of the pending update does not go down in the step from this
\* state to the next
OffsetKept ==
    (status.update.present /\ status'.update.present) =>
        status'.update.offset >= status.update.offset

\* C20 as stated: across the successive Statuses of one session the offset of
\* the pending update never decreases, on a File and on a Cloud updater alike.
C20_OffsetNeverDecreases == [][OffsetKept]_vars

\* C20: across the successive Statuses of one session on a File updater the
\* offset of the pending update never decreases.
C20_LocalOffsetNeverDecreases == [][updater = "File" => OffsetKept]_vars

\* a File session whose second Write moved the offset beyond the first's
C20_Witness ==
    /\ updater = "File"
    /\ Len(writes) = 2
    /\ status.update.present
    /\ status.update.offset = writes[2][1] + Len(writes[2][2])
    /\ status.update.offset > writes[1][1] + Len(writes[1][2])


\* check dispatches the Write it holds in the step from this state to the next
WriteStep == pc = "dispatch" /\ cmd.kind = "Write"

\* C21: for every Write the driver receives, from a File or a Cloud updater:
\* at offset 0 it calls device.start, and calls device.write(0, data) only when
\* start succeeded (a failing start ends the step without a write); at any
\* other offset it calls device.write and does not call device.start.
C21_StartBeforeFirstWrite ==
    [][WriteStep =>
        IF cmd.offset = 0
        THEN /\ calls'.start = calls.start + 1
             /\ IF failOp' = "start"
                THEN calls'.write = calls.write /\ writes' = <<>>
                ELSE calls'.write = calls.write + 1
                     /\ writes' = <<(<<0, cmd.data>>)>>
        ELSE /\ calls'.start = calls.start
             /\ calls'.write = calls.write + 1
             /\ writes' = Append(writes, <<cmd.offset, cmd.data>>)]_vars

\* a Cloud session restarted in its middle: a Write at offset 1, then a Write
\* at offset 0 that called start and write
C21_Witness ==
    /\ updater = "Cloud"
    /\ calls.write = 2
    /\ calls.start = 1
    /\ writes = <<(<<0, <<0>>>>)>>
    /\ pc = "report"


\* the Write was dispatched successfully in the step from this state to the
\* next: check goes on to its next request
WriteDone == WriteStep /\ pc' = "report"

\* C22: after a Write{version V, offset o, data d} was dispatched successfully
\* the next Status the driver sends has update {V, o + len(d)}, with V the
\* version of that command, while the Status's version is the version read at
\* the start of the session and its mtu is Some(device MTU); a Cloud updater
\* is sent that Status unchanged.
C22_StatusAfterWrite ==
    /\ [][WriteDone =>
            /\ status'.update = SomeUpdate(cmd.version, cmd.offset + Len(cmd.data))
            /\ status'.version = current_version
            /\ status'.version = status.version
            /\ status'.mtu = SomeMtu(MTU)]_vars
    /\ [][(pc = "report" /\ pc' = "cloud") => cStatus' = status]_vars

\* a Cloud session whose second Write names another version than its first:
\* the device holds the first version, the Status the second
C22_Witness ==
    /\ updater = "Cloud"
    /\ pc = "cloud"
    /\ cStatus.update = SomeUpdate("1.9", 2)
    /\ cStatus.version = "1.0"
    /\ devPending = SomeUpdate("2.0", 2)


\* check dispatches the Swap it holds in the step from this state to the next
SwapStep == pc = "dispatch" /\ cmd.kind = "Swap"

\* C23: run returns success only after a Sync was received and device.synced()
\* returned successfully; after a Swap whose device.swap returned Ok run does
\* not return but is back at device.version(), which it calls before its next
\* source request, and the Statuses of the new session carry the version just
\* read from the device.
C23_SuccessOnlyAfterSync ==
    /\ [](pc = "done" => (cmd.kind = "Sync" /\ calls.synced >= 1 /\ failOp = "none"))
    /\ [][pc' = "done" => (pc = "done" \/ (pc = "dispatch" /\ cmd.kind = "Sync"))]_vars
    /\ [][SwapStep => (pc' = "run" \/ (pc' = "err" /\ failOp' = "swap"))]_vars
    /\ [][pc = "run" =>
            /\ calls'.version = calls.version + 1
            /\ calls'.report = calls.report
            /\ pc' = "report" =>
                    /\ current_version' = devVersion
                    /\ status' = StatusFirst(devVersion, SomeMtu(MTU), NoCorrelation)]_vars
    /\ []((pc = "report" \/ pc = "dispatch") => status.version = devVersion)

\* a run that swapped, read the new version from the device and was then told
\* by the planner that the device is in sync
C23_Witness ==
    /\ pc = "done"
    /\ invocation = 1
    /\ calls.swap = 1
    /\ calls.version = 2
    /\ calls.synced = 1
    /\ entryVersion /= devVersion
    /\ status.version = devVersion


\* a 2xx answer whose body could not be read
BodyLost(r) == r.sent /\ r.success /\ ~r.read

\* C24: on a Cloud updater a failure while the body of a 2xx answer is read
\* ends the call with an error, as every transport failure does: it is the
\* last POST of the call and no sleep follows it.
C24_BodyReadFailureEndsCall ==
    \A i \in 1..Posted :
        BodyLost(Answer(i)) =>
            /\ i = Posted
            /\ cPc = "return_err"
            /\ cSleeps = Posted - 1


\* C25: for every Status with an mtu of 1 or more (or none) whose update names
\* the image's version at an offset other than the declared size and within
\* the loaded bytes of a firmware file that is not empty, the planner's Write
\* carries at least one byte, also when the declared size is not the length of
\* the loaded bytes.
C25_WriteCarriesData ==
    (/\ Planned
     /\ status.version /= metadata.version
     /\ status.update.present
     /\ status.update.version = metadata.version
     /\ status.update.offset /= metadata.size
     /\ data /= <<>>
     /\ status.update.offset <= Len(data)
     /\ (status.mtu.present => status.mtu.value >= 1)) =>
        /\ cmd.kind = "Write"
        /\ Len(cmd.data) >= 1


\* C26: on a GATT device a synced() whose mark-booted control write fails
\* leaves the updated flag set, so that the next synced() issues mark-booted
\* again.
C26_FlagKeptOnFailure ==
    [][(SyncedStep /\ gUpdated /\ gResult' = "err") => gUpdated']_vars


\* the first four bytes of the simulator's flash
FlashHead == SubSeq(flash, 1, VERSION_LEN)

\* the first four bytes of the flash are text
FlashIsText == Utf8Ok(FlashHead)

\* the first four bytes of the flash spell the metadata's version
FlashNamesVersion == FlashIsText /\ from_utf8(FlashHead) = metadata.version

\* the image has four bytes or more and its first four spell the metadata's
\* version
ImageNamesVersion ==
    /\ Len(data) >= VERSION_LEN
    /\ Utf8Ok(SubSeq(data, 1, VERSION_LEN))
    /\ from_utf8(SubSeq(data, 1, VERSION_LEN)) = metadata.version

\* run has returned or aborted
Ended == pc \in {"done", "err", "panic"}

\* C27 as stated: against the simulator a run that has swapped reaches Sync
\* only when the first four bytes of the image equal the metadata's version,
\* and otherwise never ends.
C27_EndsOnlyIfImageNamesVersion ==
    (calls.swap >= 1 /\ ~ImageNamesVersion) => ~Ended

\* C27: DeviceSimulator.swap sets the version to the first four bytes of the
\* flash when they are UTF-8 and fails when they are not, which ends run with
\* that error. A run that has swapped reaches Sync exactly when those four
\* bytes (the head of the image, followed by what the flash held before when
\* the image is shorter) spell the metadata's version: it then does reach
\* Sync, and while they are text that spells something else run never ends
\* and the first command after every swap is a Write at offset 0.
C27_SyncIffFlashNamesVersion ==
    /\ [][SwapStep =>
            IF FlashIsText
            THEN devVersion' = from_utf8(FlashHead) /\ pc' = "run"
            ELSE devVersion' = devVersion /\ pc' = "err" /\ failOp' = "swap"]_vars
    /\ []((pc = "done" /\ calls.swap >= 1) => FlashNamesVersion)
    /\ ((calls.swap >= 1 /\ pc = "run" /\ FlashNamesVersion) ~> (pc = "done"))
    /\ []((calls.swap >= 1 /\ FlashIsText /\ ~FlashNamesVersion) =>
            /\ ~Ended
            /\ (pc = "dispatch" /\ step = 1) => (cmd.kind = "Write" /\ cmd.offset = 0))

\* a run on its second round: it swapped, found another version than the
\* metadata's, started over at offset 0 and swapped again
C27_Witness ==
    /\ calls.swap = 2
    /\ calls.start = 2
    /\ pc = "run"
    /\ devVersion = from_utf8(FlashHead)
    /\ devVersion /= metadata.version

====
